---- MODULE Spec2Model ----
(***************************************************************************)
(* Band-structure plotting scripts of the CoFeMnTi study:                  *)
(*   scripts/plot_bands_improved.py      (plot_bands_improved)             *)
(*   scripts/plot_spin_resolved_bands.py (plot_spin_resolved_bands)        *)
(* The model follows the scripts statement by statement: the Fermi-energy  *)
(* reader, the try/except file selection, the column extraction, the scan  *)
(* that builds band_breaks, and the loop that slices and plots segments.   *)
(*                                                                         *)
(* Floating-point numbers are modelled by integers (only comparison and    *)
(* subtraction are used); the float NaN is a distinguished value for which *)
(* every ordered comparison is false, as in IEEE-754 / Python.             *)
(* Python indices are 0-based; TLA+ sequences are 1-based, so the Python   *)
(* element s[n] is At(s, n).                                               *)
(***************************************************************************)
EXTENDS Integers, Sequences, FiniteSets, TLC

VARIABLES
    script,        \* the function that runs: "improved" (plot_bands_improved),
                   \* "spin" (plot_spin_resolved_bands) or "comparison"
                   \* (create_comparison_plot)
    dos_file,      \* CoFeMnTi.dos (its first line, as tokens)
    fixed_file,    \* CoFeMnTi_fixed.bands.gnu
    orig_file,     \* CoFeMnTi.bands.gnu
    pc,            \* position in the script
    fermi_energy,  \* local of the plotting function
    data,          \* array returned by the reader
    k_coord,       \* data[:, 0]
    energy,        \* data[:, 1] (shifted by the Fermi energy in "spin")
    i,             \* scan loop variable (Python index)
    band_breaks,   \* boundary list
    j,             \* segment loop variable (Python index)
    segments,      \* history: every (k_segment, e_segment) the loop sliced
    plotted,       \* history: every line handed to plot() on the main axes
    plotted_aux,   \* history: every line drawn on the other axes (the zoom
                   \* of "spin", the unsegmented curve of "comparison")
    reads,         \* history: the file reads attempted, with their outcome
    previous,      \* result of an earlier segmentation of the same samples
    error          \* the exception that left the script, or "none"

vars == <<script, dos_file, fixed_file, orig_file, pc, fermi_energy, data,
          k_coord, energy, i, band_breaks, j, segments, plotted, plotted_aux,
          reads, previous, error>>

----------------------------------------------------------------------------
(* Bounds of the model *)

MaxLen == 4      \* longest sample sequence handed to the segmenter
MaxK == 1        \* finite k-coordinates are 0..MaxK
MaxRows == 3     \* most data rows of a well-formed bands file

(* float('nan'): a value outside the finite coordinates *)
NaN == 0 - 1

KValues == (0..MaxK) \cup {NaN}
EnergyValues == {2, 5}
FermiValues == {0, 1}

(* The concrete k-paths of the documented scenarios (coordinates x 100). *)
ScenarioReset == <<0, 10, 20, 5, 15, 30>>
ScenarioIncreasing == <<0, 100, 200, 300>>

SeqsUpTo(S, n) == UNION {[1..m -> S] : m \in 0..n}

----------------------------------------------------------------------------
(* Python / numpy primitives *)

At(s, n) == s[n + 1]

(* a < b on floats: false when either side is NaN *)
Lt(a, b) == a # NaN /\ b # NaN /\ a < b

(* a >= b on floats: false when either side is NaN *)
Ge(a, b) == a # NaN /\ b # NaN /\ a >= b

(* variants of Slice: s[a+1:b] and s[a:b+1] *)
SliceFromOne(s, a, b) == SubSeq(s, a + 2, b)

SliceInclusive(s, a, b) == SubSeq(s, a + 1, IF b < Len(s) THEN b + 1 ELSE b)

(* s[a:b] for 0 <= a <= b <= len(s) *)
Slice(s, a, b) == SubSeq(s, a + 1, b)

(* array - scalar *)
Minus(arr, x) == [n \in 1..Len(arr) |-> arr[n] - x]

(* variants of ResetsAt: k[i] <= k[i-1], k[i-1] < k[i], k[i] < k[0] *)
ResetsLe(k, n) == At(k, n) # NaN /\ At(k, n - 1) # NaN /\ At(k, n) <= At(k, n - 1)

ResetsFlipped(k, n) == Lt(At(k, n - 1), At(k, n))

ResetsVsFirst(k, n) == Lt(At(k, n), At(k, 0))

(* line 34: k_coord[i] < k_coord[i-1] *)
ResetsAt(k, n) == Lt(At(k, n), At(k, n - 1))

(* variant of Drawable: len(k_segment) >= 1 *)
DrawableFromOne(k_segment) == Len(k_segment) >= 1

(* line 48: len(k_segment) > 1 *)
Drawable(k_segment) == Len(k_segment) > 1

(* variant of ESegment: the Fermi energy is not subtracted at line 46 *)
ESegmentUnshifted(scr, e, start_idx, end_idx, fermi) ==
    Slice(e, start_idx, end_idx)

(* line 46: energy[start_idx:end_idx] - fermi_energy in "improved";
   line 72 / 167: energy[start_idx:end_idx] in "spin" and "comparison",
   where line 55 / 152 has already subtracted the Fermi energy from the
   whole column *)
ESegment(scr, e, start_idx, end_idx, fermi) ==
    IF scr = "improved" THEN Minus(Slice(e, start_idx, end_idx), fermi)
    ELSE Slice(e, start_idx, end_idx)

Abs(x) == IF x < 0 THEN 0 - x ELSE x

(* line 104: np.any(np.abs(e_segment) < 3) *)
NearFermi(e_segment) == \E n \in 1..Len(e_segment) : Abs(e_segment[n]) < 3

(* np.isnan(np.max(k_coord)): np.max propagates NaN *)
MaxIsNaN(k) == \E n \in 1..Len(k) : k[n] = NaN

----------------------------------------------------------------------------
(* The segmentation scan, lines 32-36 ("improved"), 58-62 ("spin") and
   155-159 ("comparison") *)

(* one iteration of `for i in range(1, len(k_coord))` *)
ScanStep ==
    /\ pc = "scan"
    /\ i < Len(k_coord)
    /\ band_breaks' = IF ResetsAt(k_coord, i) THEN Append(band_breaks, i)
                      ELSE band_breaks
    /\ i' = i + 1
    /\ UNCHANGED <<script, previous, dos_file, fixed_file, orig_file, pc, fermi_energy,
                   data, k_coord, energy, j, segments, plotted, plotted_aux,
                   reads, error>>

(* variant of ScanEnd: band_breaks.append(len(k_coord) - 1) *)
ScanEndLastIndex ==
    /\ pc = "scan"
    /\ i >= Len(k_coord)
    /\ band_breaks' = Append(band_breaks, Len(k_coord) - 1)
    /\ pc' = "render"
    /\ j' = 0
    /\ UNCHANGED <<script, previous, dos_file, fixed_file, orig_file, fermi_energy,
                   data, k_coord, energy, i, segments, plotted, plotted_aux,
                   reads, error>>

(* the range is exhausted: band_breaks.append(len(k_coord)) *)
ScanEnd ==
    /\ pc = "scan"
    /\ i >= Len(k_coord)
    /\ band_breaks' = Append(band_breaks, Len(k_coord))
    /\ pc' = "render"
    /\ j' = 0
    /\ UNCHANGED <<script, previous, dos_file, fixed_file, orig_file, fermi_energy,
                   data, k_coord, energy, i, segments, plotted, plotted_aux,
                   reads, error>>

----------------------------------------------------------------------------
(* The segment loop, lines 41-49 ("improved"), 67-75 ("spin") and
   162-170 ("comparison") *)

(* one iteration of `for i in range(len(band_breaks)-1)` *)
RenderStep ==
    /\ pc = "render"
    /\ j < Len(band_breaks) - 1
    /\ LET start_idx == At(band_breaks, j)
           end_idx == At(band_breaks, j + 1)
           k_segment == Slice(k_coord, start_idx, end_idx)
           e_segment == ESegment(script, energy, start_idx, end_idx, fermi_energy)
           line == [k |-> k_segment, e |-> e_segment]
       IN /\ segments' = Append(segments, line)
          /\ plotted' = IF Drawable(k_segment) THEN Append(plotted, line)
                        ELSE plotted
    /\ j' = j + 1
    /\ UNCHANGED <<script, previous, dos_file, fixed_file, orig_file, pc, fermi_energy,
                   data, k_coord, energy, i, band_breaks, plotted_aux, reads,
                   error>>

(* the segment loop is exhausted; "spin" goes on to its second axes *)
RenderEnd ==
    /\ pc = "render"
    /\ j >= Len(band_breaks) - 1
    /\ pc' = IF script = "spin" THEN "zoom" ELSE "finish"
    /\ j' = 0
    /\ UNCHANGED <<script, previous, dos_file, fixed_file, orig_file, fermi_energy,
                   data, k_coord, energy, i, band_breaks, segments, plotted,
                   plotted_aux, reads, error>>

(* "spin" lines 96-105: the same segments again, on the zoomed axes *)
ZoomStep ==
    /\ pc = "zoom"
    /\ j < Len(band_breaks) - 1
    /\ LET start_idx == At(band_breaks, j)
           end_idx == At(band_breaks, j + 1)
           k_segment == Slice(k_coord, start_idx, end_idx)
           e_segment == Slice(energy, start_idx, end_idx)
           line == [k |-> k_segment, e |-> e_segment]
       IN plotted_aux' = IF Drawable(k_segment) /\ NearFermi(e_segment)
                          THEN Append(plotted_aux, line)
                          ELSE plotted_aux
    /\ j' = j + 1
    /\ UNCHANGED <<script, previous, dos_file, fixed_file, orig_file, pc, fermi_energy,
                   data, k_coord, energy, i, band_breaks, segments, plotted,
                   reads, error>>

ZoomEnd ==
    /\ pc = "zoom"
    /\ j >= Len(band_breaks) - 1
    /\ pc' = "finish"
    /\ UNCHANGED <<script, previous, dos_file, fixed_file, orig_file, fermi_energy,
                   data, k_coord, energy, i, band_breaks, j, segments, plotted,
                   plotted_aux, reads, error>>

(* The rest of the figure.
   "improved" lines 51-83: max_k is bound only when len(k_coord) > 0 and
   line 78 tests for it; plt.xlim(0, max_k) with a NaN limit is left to
   matplotlib, which may accept or reject it.
   "spin" lines 107-123: line 116 reads symmetry_points, bound at line 88
   only when len(k_coord) > 0.
   "comparison" lines 172-194: whatever lines 172-186 raise is caught at
   line 188, and the figure is saved. *)
Finish ==
    /\ pc = "finish"
    /\ \/ /\ script = "improved"
          /\ \/ pc' = "done" /\ error' = "none"
             \/ /\ MaxIsNaN(k_coord)
                /\ pc' = "raised" /\ error' = "ValueError"
       \/ /\ script = "spin"
          /\ IF Len(k_coord) > 0
             THEN pc' = "done" /\ error' = "none"
             ELSE pc' = "raised" /\ error' = "NameError"
       \/ /\ script = "comparison"
          /\ pc' = "done" /\ error' = "none"
    /\ UNCHANGED <<script, previous, dos_file, fixed_file, orig_file, fermi_energy,
                   data, k_coord, energy, i, band_breaks, j, segments, plotted,
                   plotted_aux, reads>>

----------------------------------------------------------------------------
(* The segmenter and renderer on every sample sequence within the bounds:
   the script stands at the scan (line 32 / 58) with the two columns
   extracted from an N x 2 array. *)

Unread == [kind |-> "unread"]

(* variant of InitialBreaks: band_breaks = [] *)
NoBreaks == <<>>

(* line 32: band_breaks = [0] *)
InitialBreaks == <<0>>

(* data[:, c] of an N x 2 array *)
Column(arr, c) == [n \in 1..Len(arr.rows) |-> arr.rows[n][c + 1]]

(* the N x 2 array whose columns are k and e *)
Table(k, e) == [ndim |-> 2, rows |-> [n \in 1..Len(k) |-> <<k[n], e[n]>>]]

KInputs == SeqsUpTo(KValues, MaxLen) \cup {ScenarioReset, ScenarioIncreasing}

(* the state after lines 28-32 ("improved") or 51-58 ("spin") *)
AtScan(scr, fermi, k, e) ==
    /\ script = scr
    /\ fermi_energy = fermi
    /\ data = Table(k, e)
    /\ k_coord = k
    /\ energy = IF scr = "improved" THEN e ELSE Minus(e, fermi)
    /\ pc = "scan"
    /\ i = 1
    /\ band_breaks = InitialBreaks
    /\ j = 0
    /\ segments = <<>>
    /\ plotted = <<>>
    /\ plotted_aux = <<>>
    /\ error = "none"

Init ==
    /\ dos_file = Unread
    /\ fixed_file = Unread
    /\ orig_file = Unread
    /\ reads = <<>>
    /\ previous = <<>>
    /\ \E scr \in {"improved", "spin", "comparison"}, fermi \in FermiValues, k \in KInputs :
          \E e \in [1..Len(k) -> EnergyValues] : AtScan(scr, fermi, k, e)

Next ==
    \/ ScanStep
    \/ ScanEnd
    \/ RenderStep
    \/ RenderEnd
    \/ ZoomStep
    \/ ZoomEnd
    \/ Finish

Spec == Init /\ [][Next]_vars

----------------------------------------------------------------------------
(* Files.  A text file is a sequence of data rows, a row a sequence of
   whitespace-separated fields (strings); comment and blank lines, which
   both readers drop, are left out.  The first line of the DOS file is a
   sequence of tokens: the markers "EFermi =" and "eV", number texts, and
   "txt" for any other text. *)

Missing == [kind |-> "missing"]

NumText == <<"0", "1", "2", "3", "4", "5", "6">>

FormatFloat(x) == NumText[x + 1]

(* float(text) succeeds *)
IsFloat(t) == t = "nan" \/ \E x \in 0..(Len(NumText) - 1) : NumText[x + 1] = t

(* float(text) *)
ParseFloat(t) ==
    IF t = "nan" THEN NaN
    ELSE CHOOSE x \in 0..(Len(NumText) - 1) : NumText[x + 1] = t

(* a local that has not been assigned *)
Unbound == 0 - 1000

NoData == [ndim |-> 0, rows |-> <<>>]

DosFiles ==
    {Missing} \cup
    {[kind |-> "text", header |-> h] :
        h \in {<<"txt", "eV", "txt", "EFermi =", "1", "eV">>,
               <<"EFermi =", "1", "eV">>,
               <<"EFermi =", "1">>,
               <<"EFermi =", "txt", "eV">>,
               <<"EFermi =", "eV">>,
               <<"EFermi =">>,
               <<"txt", "eV", "txt", "1", "eV">>,
               <<"txt", "1", "eV">>,
               <<"1", "eV", "EFermi =">>,
               <<>>}}

RowEnergy(n) == IF n % 2 = 1 THEN "2" ELSE "5"

WellFormedFiles ==
    {[kind |-> "text",
      rows |-> [n \in 1..Len(k) |-> <<FormatFloat(k[n]), RowEnergy(n)>>]] :
        k \in SeqsUpTo(0..MaxK, MaxRows)}

MalformedFiles ==
    {[kind |-> "text", rows |-> r] :
        r \in {<<<<"0", "2">>, <<"junk", "5">>>>,
               <<<<"0", "2">>, <<"1", "5", "5">>>>,
               <<<<"0", "2">>, <<"1">>, <<"1", "5">>>>,
               <<<<"0">>, <<"1">>>>}}

BandsFiles == {Missing} \cup WellFormedFiles \cup MalformedFiles

----------------------------------------------------------------------------
(* read_dos_fermi, lines 9-15 (read_dos_file, plot_dos_pdos.py lines 18-22) *)

(* position of the first occurrence of t in s, 0 when there is none *)
Find(s, t) ==
    IF \E n \in 1..Len(s) : s[n] = t
    THEN CHOOSE n \in 1..Len(s) :
             s[n] = t /\ \A m \in 1..(n - 1) : s[m] # t
    ELSE 0

HasMarker(header) == Find(header, "EFermi =") > 0

(* header.split('EFermi =')[1], defined when the marker occurs *)
AfterMarker(header) ==
    LET rest == SubSeq(header, Find(header, "EFermi =") + 1, Len(header))
        q == Find(rest, "EFermi =")
    IN IF q = 0 THEN rest ELSE SubSeq(rest, 1, q - 1)

(* part.split('eV')[0] *)
BeforeUnit(part) ==
    LET q == Find(part, "eV")
    IN IF q = 0 THEN part ELSE SubSeq(part, 1, q - 1)

(* variant of read_dos_fermi: a missing marker gives 0.0 *)
read_dos_fermi_default(file) ==
    IF file.kind = "missing" THEN [exc |-> "FileNotFoundError"]
    ELSE IF ~HasMarker(file.header) THEN [exc |-> "none", value |-> 0]
    ELSE LET fermi_str == BeforeUnit(AfterMarker(file.header))
         IN IF Len(fermi_str) = 1 /\ IsFloat(fermi_str[1])
            THEN [exc |-> "none", value |-> ParseFloat(fermi_str[1])]
            ELSE [exc |-> "ValueError"]

(* the outcome of read_dos_fermi(filename) *)
read_dos_fermi(file) ==
    IF file.kind = "missing" THEN [exc |-> "FileNotFoundError"]
    ELSE IF ~HasMarker(file.header) THEN [exc |-> "IndexError"]
    ELSE LET fermi_str == BeforeUnit(AfterMarker(file.header))
         IN IF Len(fermi_str) = 1 /\ IsFloat(fermi_str[1])
            THEN [exc |-> "none", value |-> ParseFloat(fermi_str[1])]
            ELSE [exc |-> "ValueError"]

----------------------------------------------------------------------------
(* The two readers of a bands file *)

Widths(rows) == {Len(rows[n]) : n \in 1..Len(rows)}

AllFloats(rows) ==
    \A n \in 1..Len(rows) : \A c \in 1..Len(rows[n]) : IsFloat(rows[n][c])

Parsed(rows) ==
    [n \in 1..Len(rows) |-> [c \in 1..Len(rows[n]) |-> ParseFloat(rows[n][c])]]

WideEnough(row) == Len(row) >= 2

(* variant of loadtxt: row widths are not compared, rows of different
   widths come back as a 1-D array of rows *)
loadtxt_unchecked(file) ==
    IF file.kind = "missing" THEN {[exc |-> "FileNotFoundError"]}
    ELSE IF ~AllFloats(file.rows) THEN {[exc |-> "ValueError"]}
    ELSE {[exc |-> "none",
           data |-> [ndim |-> IF /\ Len(file.rows) >= 2
                                 /\ Cardinality(Widths(file.rows)) = 1
                                 /\ Widths(file.rows) # {1}
                              THEN 2 ELSE 1,
                     rows |-> Parsed(file.rows)]]}

(* np.loadtxt(filename), "improved" lines 23 and 26: the possible outcomes.
   An empty input gives an empty 1-D array, a single row or a single
   column a 1-D array, rows of different widths a ValueError. *)
loadtxt(file) ==
    IF file.kind = "missing" THEN {[exc |-> "FileNotFoundError"]}
    ELSE IF ~AllFloats(file.rows) THEN {[exc |-> "ValueError"]}
    ELSE IF Cardinality(Widths(file.rows)) > 1 THEN {[exc |-> "ValueError"]}
    ELSE {[exc |-> "none",
           data |-> [ndim |-> IF Len(file.rows) >= 2 /\ Widths(file.rows) # {1}
                              THEN 2 ELSE 1,
                     rows |-> Parsed(file.rows)]]}

(* read_bands_data(filename), "spin" lines 17-36: the possible outcomes.
   Rows with fewer than 2 fields are skipped; np.array of rows of
   different lengths raises ValueError or, in older numpy, builds a 1-D
   array of objects. *)
read_bands_data(file) ==
    IF file.kind = "missing" THEN {[exc |-> "FileNotFoundError"]}
    ELSE LET kept == SelectSeq(file.rows, WideEnough)
         IN IF ~AllFloats(kept) THEN {[exc |-> "ValueError"]}
            ELSE IF Cardinality(Widths(kept)) > 1
            THEN {[exc |-> "ValueError"],
                  [exc |-> "none", data |-> [ndim |-> 1, rows |-> Parsed(kept)]]}
            ELSE {[exc |-> "none",
                   data |-> [ndim |-> IF kept = <<>> THEN 1 ELSE 2,
                             rows |-> Parsed(kept)]]}

Reader(scr, file) ==
    IF scr = "improved" THEN loadtxt(file) ELSE read_bands_data(file)

----------------------------------------------------------------------------
(* The plotting function from its first line *)

(* line 19 / 40 / 127: fermi_energy = read_dos_fermi('CoFeMnTi.dos') *)
ReadFermi ==
    /\ pc = "start"
    /\ \E file \in DosFiles :
          /\ dos_file' = file
          /\ LET out == read_dos_fermi(file)
             IN IF out.exc = "none"
                THEN /\ fermi_energy' = out.value
                     /\ pc' = IF script = "comparison" THEN "cmp_orig"
                              ELSE "read_fixed"
                     /\ error' = error
                ELSE /\ fermi_energy' = fermi_energy
                     /\ pc' = "raised"
                     /\ error' = out.exc
    /\ UNCHANGED <<script, previous, fixed_file, orig_file, data, k_coord,
                   energy, i, band_breaks, j, segments, plotted, plotted_aux,
                   reads>>

(* variant of ReadFixed: no try/except around the first read *)
ReadFixedUncaught ==
    /\ pc = "read_fixed"
    /\ \E file \in BandsFiles :
          /\ fixed_file' = file
          /\ \E out \in Reader(script, file) :
                /\ reads' = Append(reads, [file |-> "fixed", exc |-> out.exc])
                /\ IF out.exc = "none"
                   THEN data' = out.data /\ pc' = "columns" /\ error' = error
                   ELSE data' = data /\ pc' = "raised" /\ error' = out.exc
    /\ UNCHANGED <<script, previous, dos_file, orig_file, fermi_energy,
                   k_coord, energy, i, band_breaks, j, segments, plotted,
                   plotted_aux>>

(* lines 22-23 / 42-45: the try block; a bare except catches any failure *)
ReadFixed ==
    /\ pc = "read_fixed"
    /\ \E file \in BandsFiles :
          /\ fixed_file' = file
          /\ \E out \in Reader(script, file) :
                /\ reads' = Append(reads, [file |-> "fixed", exc |-> out.exc])
                /\ IF out.exc = "none"
                   THEN data' = out.data /\ pc' = "columns"
                   ELSE data' = data /\ pc' = "read_fallback"
    /\ UNCHANGED <<script, previous, dos_file, orig_file, fermi_energy,
                   k_coord, energy, i, band_breaks, j, segments, plotted,
                   plotted_aux, error>>

(* lines 24-26 / 46-49: the except block reads the original file *)
ReadFallback ==
    /\ pc = "read_fallback"
    /\ \E file \in BandsFiles :
          /\ orig_file' = file
          /\ \E out \in Reader(script, file) :
                /\ reads' = Append(reads, [file |-> "orig", exc |-> out.exc])
                /\ IF out.exc = "none"
                   THEN data' = out.data /\ pc' = "columns" /\ error' = error
                   ELSE data' = data /\ pc' = "raised" /\ error' = out.exc
    /\ UNCHANGED <<script, previous, dos_file, fixed_file, fermi_energy,
                   k_coord, energy, i, band_breaks, j, segments, plotted,
                   plotted_aux>>

(* lines 28-32 / 51-58 / 151-155: data[:, 0] and data[:, 1] index two
   dimensions; in "comparison" the IndexError is caught at line 188 *)
Columns ==
    /\ pc = "columns"
    /\ IF data.ndim = 2
       THEN /\ k_coord' = Column(data, 0)
            /\ energy' = IF script = "improved"
                         THEN Column(data, 1)
                         ELSE Minus(Column(data, 1), fermi_energy)
            /\ band_breaks' = InitialBreaks
            /\ i' = 1
            /\ pc' = "scan"
            /\ error' = error
       ELSE /\ pc' = IF script = "comparison" THEN "finish" ELSE "raised"
            /\ error' = IF script = "comparison" THEN error ELSE "IndexError"
            /\ UNCHANGED <<k_coord, energy, band_breaks, i>>
    /\ UNCHANGED <<script, previous, dos_file, fixed_file, orig_file,
                   fermi_energy, data, j, segments, plotted, plotted_aux,
                   reads>>

(* "comparison" lines 132-146: the original file, drawn as one curve; any
   failure in the try block is caught at line 145 *)
CompareOriginal ==
    /\ pc = "cmp_orig"
    /\ \E file \in BandsFiles :
          /\ orig_file' = file
          /\ \E out \in read_bands_data(file) :
                /\ reads' = Append(reads, [file |-> "orig", exc |-> out.exc])
                /\ plotted_aux' =
                      IF out.exc = "none" /\ out.data.ndim = 2
                      THEN <<[k |-> Column(out.data, 0),
                              e |-> Minus(Column(out.data, 1), fermi_energy)]>>
                      ELSE plotted_aux
    /\ pc' = "cmp_fixed"
    /\ UNCHANGED <<script, previous, dos_file, fixed_file, fermi_energy, data,
                   k_coord, energy, i, band_breaks, j, segments, plotted,
                   error>>

(* "comparison" lines 149-150: the corrected file; a failure is caught at
   line 188 *)
CompareFixed ==
    /\ pc = "cmp_fixed"
    /\ \E file \in BandsFiles :
          /\ fixed_file' = file
          /\ \E out \in read_bands_data(file) :
                /\ reads' = Append(reads, [file |-> "fixed", exc |-> out.exc])
                /\ IF out.exc = "none"
                   THEN data' = out.data /\ pc' = "columns"
                   ELSE data' = data /\ pc' = "finish"
    /\ UNCHANGED <<script, previous, dos_file, orig_file, fermi_energy,
                   k_coord, energy, i, band_breaks, j, segments, plotted,
                   plotted_aux, error>>

PipeInit ==
    /\ script \in {"improved", "spin", "comparison"}
    /\ dos_file = Unread
    /\ fixed_file = Unread
    /\ orig_file = Unread
    /\ pc = "start"
    /\ fermi_energy = Unbound
    /\ data = NoData
    /\ k_coord = <<>>
    /\ energy = <<>>
    /\ i = 0
    /\ band_breaks = <<>>
    /\ j = 0
    /\ segments = <<>>
    /\ plotted = <<>>
    /\ plotted_aux = <<>>
    /\ reads = <<>>
    /\ previous = <<>>
    /\ error = "none"

PipeNext ==
    \/ ReadFermi
    \/ ReadFixed
    \/ ReadFallback
    \/ Columns
    \/ CompareOriginal
    \/ CompareFixed
    \/ Next

PipeSpec == PipeInit /\ [][PipeNext]_vars

----------------------------------------------------------------------------
(* Segmenting again what a first segmentation emitted *)

RECURSIVE Flatten(_)
Flatten(ss) == IF ss = <<>> THEN <<>> ELSE Head(ss) \o Flatten(Tail(ss))

KOf(segs) == [n \in 1..Len(segs) |-> segs[n].k]
EOf(segs) == [n \in 1..Len(segs) |-> segs[n].e]

(* The emitted slices are concatenated (the Fermi shift of the energies
   undone) and handed to lines 28-32 / 51-58 as a new pair of columns. *)
Resegment ==
    /\ pc = "finish"
    /\ previous = <<>>
    /\ previous' = <<[breaks |-> band_breaks, segments |-> segments]>>
    /\ LET k == Flatten(KOf(segments))
           e == Minus(Flatten(EOf(segments)), 0 - fermi_energy)
       IN /\ data' = Table(k, e)
          /\ k_coord' = k
          /\ energy' = IF script = "improved" THEN e
                       ELSE Minus(e, fermi_energy)
    /\ pc' = "scan"
    /\ i' = 1
    /\ band_breaks' = InitialBreaks
    /\ j' = 0
    /\ segments' = <<>>
    /\ plotted' = <<>>
    /\ plotted_aux' = <<>>
    /\ UNCHANGED <<script, dos_file, fixed_file, orig_file, fermi_energy,
                   reads, error>>

IdemNext == Next \/ Resegment

IdemSpec == Init /\ [][IdemNext]_vars

----------------------------------------------------------------------------
(* Properties *)

(* the segment loop has run to its end *)
Segmented == pc \in {"zoom", "finish", "done"}

(* the scan has run to its end *)
Scanned == pc \in {"render", "zoom", "finish", "done"}

InputK == Column(data, 0)
InputE == Column(data, 1)

(* C1: concatenating the emitted slices [band_breaks[j], band_breaks[j+1])
   in order gives back the input samples: the k column as read, and the
   energy column (each value shifted by the Fermi energy); nothing is
   dropped, duplicated or reordered. *)
LosslessPartition ==
    Segmented =>
        /\ Flatten(KOf(segments)) = InputK
        /\ Flatten(EOf(segments)) = Minus(InputE, fermi_energy)

LosslessPartitionWitness ==
    /\ Segmented
    /\ Len(segments) >= 2
    /\ Len(InputK) >= 3

Interior(B) == {B[m] : m \in 2..(Len(B) - 1)}

(* C2: once the scan is over, index i (1 <= i < N) is a boundary iff
   k[i] < k[i-1]; the list is 0, the reset indices in increasing order, N;
   the documented path 0.0 0.1 0.2 0.05 0.15 0.3 gives 0, 3, 6. *)
SplitIffReset ==
    Scanned =>
        LET N == Len(InputK)
            B == band_breaks
        IN /\ Len(B) >= 2
           /\ B[1] = 0
           /\ B[Len(B)] = N
           /\ \A n \in 1..(N - 1) :
                 (n \in Interior(B)) <=> Lt(InputK[n + 1], InputK[n])
           /\ Interior(B) \subseteq 1..(N - 1)
           /\ \A m \in 1..(Len(B) - 2) : B[m] < B[m + 1]
           /\ (InputK = ScenarioReset => B = <<0, 3, 6>>)

SplitIffResetWitness ==
    /\ Scanned
    /\ InputK = ScenarioReset
    /\ band_breaks = <<0, 3, 6>>

NoNaN(k) == \A n \in 1..Len(k) : k[n] # NaN

(* C3 as stated: inside every emitted segment each k is >= the one before. *)
SegmentsNonDecreasing ==
    Segmented =>
        \A m \in 1..Len(segments) :
            \A n \in 2..Len(segments[m].k) :
                Ge(segments[m].k[n], segments[m].k[n - 1])

(* C3: inside every emitted segment no k is less than the one before; when
   no k-coordinate is NaN that makes every segment non-decreasing. *)
SegmentsNeverDecrease ==
    Segmented =>
        \A m \in 1..Len(segments) :
            \A n \in 2..Len(segments[m].k) :
                /\ ~Lt(segments[m].k[n], segments[m].k[n - 1])
                /\ NoNaN(InputK) => Ge(segments[m].k[n], segments[m].k[n - 1])

SegmentsNeverDecreaseWitness ==
    /\ Segmented
    /\ Len(segments) >= 2
    /\ \E m \in 1..Len(segments) :
          /\ Len(segments[m].k) >= 2
          /\ segments[m].k[2] = NaN

OneSegmentWithoutReset ==
    (/\ Segmented
     /\ Len(InputK) >= 1
     /\ \A n \in 1..(Len(InputK) - 1) : ~Lt(InputK[n + 1], InputK[n]))
    => /\ Len(segments) = 1
       /\ segments[1].k = InputK
       /\ segments[1].e = Minus(InputE, fermi_energy)

OneSegmentWithoutResetWitness ==
    /\ pc = "done"
    /\ Len(InputK) = 1
    /\ Len(segments) = 1
    /\ Len(segments[1].k) = 1

(* C6: segmenting the concatenation of the emitted segments gives the same
   boundary list and the same segments as the first run. *)
Idempotent ==
    (Segmented /\ previous # <<>>) =>
        /\ band_breaks = previous[1].breaks
        /\ segments = previous[1].segments

IdempotentWitness ==
    /\ pc = "done"
    /\ previous # <<>>
    /\ Len(previous[1].segments) >= 2
    /\ Len(segments) >= 2

MultiSample(line) == Len(line.k) >= 2

(* C7: the segment loop slices one segment per pair of consecutive
   boundaries, single-sample ones included, and hands to plot() exactly
   those with 2 or more samples, once each and in order. *)
OnlyRendererFilters ==
    Segmented =>
        /\ Len(segments) = Len(band_breaks) - 1
        /\ \A m \in 1..Len(segments) :
              /\ Len(segments[m].k) = band_breaks[m + 1] - band_breaks[m]
              /\ segments[m].k =
                   SubSeq(InputK, band_breaks[m] + 1, band_breaks[m + 1])
        /\ plotted = SelectSeq(segments, MultiSample)

OnlyRendererFiltersWitness ==
    /\ Segmented
    /\ plotted # <<>>
    /\ \E m \in 1..Len(segments) : Len(segments[m].k) = 1

----------------------------------------------------------------------------
(* Properties of the whole plotting function *)

NothingDrawn ==
    /\ segments = <<>>
    /\ plotted = <<>>
    /\ plotted_aux = <<>>

MarkerMissing ==
    /\ pc # "start"
    /\ dos_file.kind = "text"
    /\ ~HasMarker(dos_file.header)

(* C8 as stated: without 'EFermi =' in the first line of the DOS file the
   reader fails with a FormatError and no Fermi value is produced. *)
MissingMarkerFormatError ==
    MarkerMissing =>
        /\ pc = "raised"
        /\ error = "FormatError"
        /\ fermi_energy = Unbound

(* C8: without 'EFermi =' in the first line of the DOS file the reader
   fails with an IndexError, which nothing catches: fermi_energy is never
   assigned, no bands file is read and nothing is drawn. *)
MissingMarkerIndexError ==
    MarkerMissing =>
        /\ pc = "raised"
        /\ error = "IndexError"
        /\ fermi_energy = Unbound
        /\ reads = <<>>
        /\ NothingDrawn

MissingMarkerWitness ==
    /\ pc = "raised"
    /\ dos_file.kind = "text"
    /\ dos_file.header = <<"txt", "1", "eV">>

Failed(n) == reads[n].exc # "none"

(* C9 as stated: when the script has ended, a failed read of a bands file
   is the last read, the script ended with that failure, and nothing was
   plotted. *)
ReadFailureSurfaced ==
    pc \in {"done", "raised"} =>
        \A n \in 1..Len(reads) :
            Failed(n) =>
                /\ n = Len(reads)
                /\ pc = "raised"
                /\ error = reads[n].exc
                /\ NothingDrawn

(* C9: in plot_bands_improved and plot_spin_resolved_bands a failed read
   of the corrected file is caught and the original file is read next,
   and a failed read of the original file ends the script with that
   failure and nothing drawn; in create_comparison_plot no failed read
   ends the script. *)
FallbackThenSurface ==
    /\ script \in {"improved", "spin"} =>
          /\ Len(reads) <= 2
          /\ \A n \in 1..Len(reads) :
                /\ reads[n].file = IF n = 1 THEN "fixed" ELSE "orig"
                /\ n = 2 => Failed(1)
                /\ (n = 1 /\ Failed(n)) =>
                      pc = "read_fallback" \/ Len(reads) = 2
                /\ (n = 2 /\ Failed(n)) =>
                      /\ pc = "raised"
                      /\ error = reads[n].exc
                      /\ NothingDrawn
    /\ script = "comparison" =>
          /\ Len(reads) <= 2
          /\ \A n \in 1..Len(reads) :
                /\ reads[n].file = IF n = 1 THEN "orig" ELSE "fixed"
                /\ pc # "raised"
                /\ error = "none"
                /\ (n = 1 /\ Failed(n)) =>
                      pc \in {"cmp_fixed", "columns", "scan", "render",
                              "finish", "done"}
                /\ (n = 2 /\ Failed(n)) => pc \in {"finish", "done"}

FallbackThenSurfaceWitness ==
    /\ pc = "done"
    /\ script = "improved"
    /\ Len(reads) = 2
    /\ Failed(1)
    /\ plotted # <<>>

(* C10: a bands file with no samples is not an error: the function does
   not raise, and it ends with no band line drawn. *)
EmptyInputNotAnError ==
    (/\ reads # <<>>
     /\ ~Failed(Len(reads))
     /\ data # NoData
     /\ data.rows = <<>>)
    => /\ pc # "raised"
       /\ error = "none"
       /\ pc = "done" => plotted = <<>>

(* the file that the n-th read opened *)
ReadFile(n) == IF reads[n].file = "fixed" THEN fixed_file ELSE orig_file

(* the data rows of the file do not all have the same number of fields *)
Ragged(file) == file.kind = "text" /\ Cardinality(Widths(file.rows)) > 1

(* C11 as stated: reading a bands file whose rows differ in width fails
   with a FormatError, no other file is read after it, and the segmenter
   is not run. *)
RaggedRowsFormatError ==
    \A n \in 1..Len(reads) :
        Ragged(ReadFile(n)) =>
            /\ reads[n].exc = "FormatError"
            /\ n = Len(reads)
            /\ pc = "raised"
            /\ segments = <<>>

(* the n-th read failed with a ValueError: caught when it is the first
   read (the other file is read next), surfaced when it is the second *)
ValueErrorHandled(n) ==
    /\ n = 1 => (pc = "read_fallback" \/ Len(reads) = 2)
    /\ n = 2 => (pc = "raised" /\ error = "ValueError" /\ NothingDrawn)

(* C11: in plot_bands_improved and plot_spin_resolved_bands, for a bands
   file whose rows differ in width: np.loadtxt fails with a ValueError;
   read_bands_data drops the rows with fewer than 2 fields and succeeds
   when the rest agree in width, and otherwise fails with a ValueError or
   returns a 1-D array on which data[:, 0] raises IndexError.  A failure
   on the first file is caught and the other file is read.  The columns
   that reach the segmenter always have equal length. *)
RaggedRowsHandled ==
    /\ Len(k_coord) = Len(energy)
    /\ band_breaks # <<>> =>
          /\ data.ndim = 2
          /\ Cardinality(Widths(data.rows)) = 1
          /\ Len(k_coord) = Len(data.rows)
    /\ script \in {"improved", "spin"} =>
          \A n \in 1..Len(reads) :
              Ragged(ReadFile(n)) =>
                  LET kept == SelectSeq(ReadFile(n).rows, WideEnough)
                  IN IF script = "improved"
                     THEN reads[n].exc = "ValueError" /\ ValueErrorHandled(n)
                     ELSE IF Cardinality(Widths(kept)) <= 1
                     THEN /\ reads[n].exc = "none"
                          /\ n = Len(reads)
                          /\ data.rows = Parsed(kept)
                     ELSE \/ reads[n].exc = "ValueError" /\ ValueErrorHandled(n)
                          \/ /\ reads[n].exc = "none"
                             /\ n = Len(reads)
                             /\ data.ndim = 1
                             /\ pc \in {"columns", "raised"}
                             /\ pc = "raised" => error = "IndexError"
                             /\ NothingDrawn

RaggedRowsWitness ==
    /\ script = "improved"
    /\ Ragged(fixed_file)
    /\ Len(reads) = 2
    /\ ~Failed(2)
    /\ pc = "done"
    /\ plotted # <<>>

----------------------------------------------------------------------------
(* Further properties of the segmenter *)

Lines(ss) == {ss[n] : n \in 1..Len(ss)}

(* C12: every segment the loop slices, and so every line handed to
   plot(), is the index range [start, end) of the input: as many k as e
   values, its j-th k is k[start+j] unchanged and its j-th e is
   energy[start+j] minus the Fermi energy. *)
SegmentIsInputRange ==
    Segmented =>
        /\ \A m \in 1..Len(segments) :
              LET start == band_breaks[m]
                  end == band_breaks[m + 1]
                  seg == segments[m]
              IN /\ Len(seg.k) = end - start
                 /\ Len(seg.e) = end - start
                 /\ \A n \in 0..(end - start - 1) :
                       /\ seg.k[n + 1] = InputK[start + n + 1]
                       /\ seg.e[n + 1] = InputE[start + n + 1] - fermi_energy
        /\ Lines(plotted) \subseteq Lines(segments)
        /\ Lines(plotted_aux) \subseteq Lines(segments)

SegmentIsInputRangeWitness ==
    /\ pc = "done"
    /\ script = "improved"
    /\ fermi_energy = 1
    /\ Len(segments) >= 2
    /\ Len(plotted) >= 2

Resets(k) == {n \in 1..(Len(k) - 1) : Lt(k[n + 1], k[n])}

(* C13: for an input of N >= 1 samples the boundary list starts with 0,
   ends with N and is strictly increasing; every sliced segment is
   non-empty and there are 1 + (number of i with k[i] < k[i-1]) of them. *)
BoundariesStrictlyIncrease ==
    (Scanned /\ Len(InputK) >= 1) =>
        LET B == band_breaks
        IN /\ B[1] = 0
           /\ B[Len(B)] = Len(InputK)
           /\ \A m \in 1..(Len(B) - 1) : B[m] < B[m + 1]
           /\ Len(B) - 1 = 1 + Cardinality(Resets(InputK))
           /\ Segmented =>
                 /\ Len(segments) = 1 + Cardinality(Resets(InputK))
                 /\ \A m \in 1..Len(segments) : Len(segments[m].k) >= 1

BoundariesStrictlyIncreaseWitness ==
    /\ Segmented
    /\ Len(InputK) = MaxLen
    /\ Cardinality(Resets(InputK)) = 2
    /\ Len(segments) = 3

====
